---- MODULE Spec2Model ----
(***************************************************************************)
(* Model of the single-chain header store of src/src/storage.rs: the four  *)
(* columns of the key-value database, the Metadata Record, import_header,  *)
(* finalize_header and insert_aux, with the read path they use.            *)
(***************************************************************************)
EXTENDS Integers, Sequences, FiniteSets

\* ------------------------------------------------------------------ bounds

\* Largest block number a header of the input universe carries.
MaxNum == 2
\* Longest chain of headers (genesis included) the input universe contains.
MaxDepth == 3
\* Largest max_non_finalized_blocks_allowed a store is constructed with.
MaxAllowed == 2
\* Most puts and deletes, taken together, in one call of insert_aux.
MaxAuxOps == 2
\* Most lost updates the interleaved system is followed through.
MaxRaces == 1

\* ------------------------------------------------------- columns and keys

META_COLUMN == 0
HEADER_COLUMN == 1
AUX_COLUMN == 2
LOOKUP_COLUMN == 3
Columns == {META_COLUMN, HEADER_COLUMN, AUX_COLUMN, LOOKUP_COLUMN}

META_KEY == "meta"

\* ------------------------------------------------------ hashes and headers

\* Default::default() of Block::Hash: the all-zero hash, reserved for "unset".
DefaultHash == 0

Numbers == 0..MaxNum
\* What a header holds beside parent hash and number (roots, digest): two
\* headers that differ only here are siblings with different hashes.
Digests == {0, 1}

\* header.hash(): an injective function of the header's content that never
\* yields the zero hash. The number digit MaxNum + 1 is left to UnknownHash.
HeaderHash(h) ==
    ((h.parent * (MaxNum + 2) + h.number) * Cardinality(Digests) + h.digest) + 1

\* The hash of a header that is never presented to the store.
UnknownHash == HeaderHash([parent |-> DefaultHash, number |-> MaxNum + 1, digest |-> 0])

\* The headers of the chains that grow from the unset parent hash by the next
\* number, d headers long at most; their digest is 0.
RECURSIVE Chained(_)
Chained(d) ==
    IF d = 1 THEN {[parent |-> DefaultHash, number |-> n, digest |-> 0] : n \in Numbers}
    ELSE LET prev == Chained(d - 1)
         IN  prev \cup
             {[parent |-> HeaderHash(c), number |-> c.number + 1, digest |-> 0] :
                 c \in {x \in prev : x.number < MaxNum}}

\* Every header a caller presents: any number and any digest on top of the
\* unset hash, of an unseen hash or of the hash of a chained header.
Headers ==
    LET parents == {DefaultHash, UnknownHash}
                   \cup {HeaderHash(c) : c \in Chained(MaxDepth - 1)}
    IN  {[parent |-> p, number |-> n, digest |-> d] :
            p \in parents, n \in Numbers, d \in Digests}

Hashes == {HeaderHash(h) : h \in Headers}

\* BlockId<Block>: a locator by hash or by number.
BlockIds ==
    {[tag |-> "Hash", v |-> x] : x \in Hashes \cup {UnknownHash}}
    \cup {[tag |-> "Number", v |-> n] : n \in Numbers}

\* ------------------------------------------------------------ key-value db

EmptyMap == [k \in {} |-> k]

\* Option<T> is a sequence of length 0 (None) or 1 (Some).
None == <<>>
Some(x) == <<x>>

\* KeyValueDB::get(col, key)
Get(db, col, key) ==
    IF key \in DOMAIN db[col] THEN Some(db[col][key]) ELSE None

\* DBTransaction::put / DBTransaction::delete: one operation of a batch.
TxPut(col, key, val) == [op |-> "put", col |-> col, key |-> key, val |-> val]
TxDelete(col, key) == [op |-> "delete", col |-> col, key |-> key, val |-> 0]

\* One operation of a batch applied to the database.
ApplyOp(db, o) ==
    IF o.op = "put"
    THEN [db EXCEPT ![o.col] =
            [k \in DOMAIN @ \cup {o.key} |-> IF k = o.key THEN o.val ELSE @[k]]]
    ELSE [db EXCEPT ![o.col] = [k \in DOMAIN @ \ {o.key} |-> @[k]]]

\* KeyValueDB::write(tx): the operations of the batch in order, as one step.
RECURSIVE WriteFrom(_, _, _)
WriteFrom(db, tx, i) ==
    IF i > Len(tx) THEN db ELSE WriteFrom(ApplyOp(db, tx[i]), tx, i + 1)

\* A write that stops after the first operation of the batch.
Write_FirstOnly(db, tx) == IF tx = <<>> THEN db ELSE ApplyOp(db, tx[1])

Write(db, tx) == WriteFrom(db, tx, 1)

\* What the key-value engine does to a call: nothing, or an io::Error on the
\* call's first read, or an io::Error on its write.
Faults == {"none", "read", "write"}

\* The value a call returns and the database it leaves.
Result(res, db) == [res |-> res, db |-> db]

\* ------------------------------------------------------------ StorageMeta

\* The record import_header starts from when the store has none.
DefaultMeta ==
    [best_hash |-> DefaultHash, best_number |-> 0,
     finalized_hash |-> DefaultHash, finalized_number |-> 0,
     genesis_hash |-> DefaultHash, non_finalized_blocks |-> 0]

fetch_meta(db) == Get(db, META_COLUMN, META_KEY)

tx_store_meta(tx, meta) == Append(tx, TxPut(META_COLUMN, META_KEY, meta))

header_hash_to_id(hash) == hash

\* tx_store_header that also records the header's hash under its number.
tx_store_header_WithLookup(tx, hdr) ==
    Append(Append(tx, TxPut(HEADER_COLUMN, header_hash_to_id(HeaderHash(hdr)), hdr)),
           TxPut(LOOKUP_COLUMN, hdr.number, HeaderHash(hdr)))

\* tx_store_header that adds nothing to the batch.
tx_store_header_Nothing(tx, hdr) == tx

tx_store_header(tx, hdr) ==
    Append(tx, TxPut(HEADER_COLUMN, header_hash_to_id(HeaderHash(hdr)), hdr))

\* tx_delete_header that adds nothing to the batch.
tx_delete_header_Nothing(tx, hash) == tx

tx_delete_header(tx, hash) ==
    Append(tx, TxDelete(HEADER_COLUMN, header_hash_to_id(hash)))

\* What the key-value engine does to a read: it answers, or fails its get
\* with an io::Error.
ReadFaults == {"none", "read"}

\* What a read returns: Ok and the Option read, or the Backend error that
\* db_err makes of the engine's io::Error.
Read(val) == [res |-> "Ok", val |-> val]
ReadFailed == [res |-> "Backend", val |-> None]

\* Storage::id: the HEADER key of a locator, through LOOKUP for a number.
\* A hash needs no read of the engine.
id(db, block_id, fault) ==
    IF block_id.tag = "Hash"
    THEN Read(Some(header_hash_to_id(block_id.v)))
    ELSE IF fault = "read" THEN ReadFailed
    ELSE Read(Get(db, LOOKUP_COLUMN, block_id.v))

\* Storage::header_hash and HeaderBackend::hash
header_hash(db, number, fault) ==
    IF fault = "read" THEN ReadFailed
    ELSE Read(Get(db, LOOKUP_COLUMN, number))

\* header that reads the LOOKUP column where it should read HEADER.
header_WrongColumn(db, block_id, fault) ==
    LET possible_header_key == id(db, block_id, fault)
    IN  IF possible_header_key.res # "Ok" THEN ReadFailed
        ELSE IF possible_header_key.val = None THEN Read(None)
        ELSE IF fault = "read" THEN ReadFailed
        ELSE Read(Get(db, LOOKUP_COLUMN, possible_header_key.val[1]))

\* HeaderBackend::header
header(db, block_id, fault) ==
    LET possible_header_key == id(db, block_id, fault)
    IN  IF possible_header_key.res # "Ok" THEN ReadFailed
        ELSE IF possible_header_key.val = None THEN Read(None)
        ELSE IF fault = "read" THEN ReadFailed
        ELSE Read(Get(db, HEADER_COLUMN, possible_header_key.val[1]))

ByHash(h) == [tag |-> "Hash", v |-> h]
ByNumber(n) == [tag |-> "Number", v |-> n]

\* AuxStore::get_aux
get_aux(db, key, fault) ==
    IF fault = "read" THEN ReadFailed
    ELSE Read(Get(db, AUX_COLUMN, key))

\* -------------------------------------------------------- the write path

\* u64::MAX, the value an unchecked decrement of a zero non_finalized_blocks
\* wraps to; the largest integer of TLC stands for it.
U64_MAX == 2147483647

\* An increment that is left out.
Increment_Missing(n) == n

\* meta.non_finalized_blocks += 1: the guard before it keeps the counter
\* below max_non_finalized_blocks_allowed, itself a u64, so it cannot wrap.
Increment(n) == n + 1

\* A decrement that is left out.
Decrement_Missing(n) == n

\* meta.non_finalized_blocks -= 1 where the build does not abort at zero.
Decrement(n) == IF n = 0 THEN U64_MAX ELSE n - 1

\* The backlog check with > for >=.
BacklogFull_OffByOne(meta, max) == meta.non_finalized_blocks > max

\* The backlog check of import_header.
BacklogFull(meta, max) == meta.non_finalized_blocks >= max

\* The first check with "and" for "or".
NotChildOfBest_Both(hdr, parent_header) ==
    /\ hdr.parent # HeaderHash(parent_header)
    /\ hdr.number <= parent_header.number

\* The first check with < for <=.
NotChildOfBest_StrictlyLess(hdr, parent_header) ==
    \/ hdr.parent # HeaderHash(parent_header)
    \/ hdr.number < parent_header.number

\* The first check without its comparison of numbers.
NotChildOfBest_ParentOnly(hdr, parent_header) ==
    hdr.parent # HeaderHash(parent_header)

\* The first check of import_header against the header stored at best_hash.
NotChildOfBest(hdr, parent_header) ==
    \/ hdr.parent # HeaderHash(parent_header)
    \/ hdr.number <= parent_header.number

\* The second check of import_header, against the record's best_number.
NotNextNumber(hdr, meta) == hdr.number # meta.best_number + 1

\* import_header that sets genesis_hash at every import.
ImportedMeta_GenesisAlways(meta, hdr, first_imported_header) ==
    [meta EXCEPT
        !.genesis_hash = HeaderHash(hdr),
        !.non_finalized_blocks = Increment(@),
        !.best_hash = HeaderHash(hdr),
        !.best_number = hdr.number]

\* import_header that leaves best_number as it was.
ImportedMeta_StaleBestNumber(meta, hdr, first_imported_header) ==
    [meta EXCEPT
        !.genesis_hash = IF first_imported_header THEN HeaderHash(hdr) ELSE @,
        !.non_finalized_blocks = Increment(@),
        !.best_hash = HeaderHash(hdr)]

\* The record import_header commits for an accepted header.
ImportedMeta(meta, hdr, first_imported_header) ==
    [meta EXCEPT
        !.genesis_hash = IF first_imported_header THEN HeaderHash(hdr) ELSE @,
        !.non_finalized_blocks = Increment(@),
        !.best_hash = HeaderHash(hdr),
        !.best_number = hdr.number]

\* A batch of import_header without the put of the record.
ImportTx_HeaderOnly(meta, hdr, first_imported_header) ==
    tx_store_header(<<>>, hdr)

\* The batch import_header commits: the record and the header.
ImportTx(meta, hdr, first_imported_header) ==
    tx_store_header(
        tx_store_meta(<<>>, ImportedMeta(meta, hdr, first_imported_header)),
        hdr)

\* StorageT::import_header. is_best is state.is_best(); aux_ops is accepted
\* and not used.
import_header(db, max, hdr, is_best, aux_ops, fault) ==
    IF ~is_best THEN Result("Panic", db)
    ELSE IF fault = "read" THEN Result("Backend", db)
    ELSE
    LET possible_meta == fetch_meta(db)
        meta == IF possible_meta = None THEN DefaultMeta ELSE possible_meta[1]
        first_imported_header == meta.best_hash = DefaultHash
        possible_parent_header == header(db, ByHash(meta.best_hash), "none").val
        tx == ImportTx(meta, hdr, first_imported_header)
    IN  IF BacklogFull(meta, max) THEN Result("Backend", db)
        ELSE IF header(db, ByHash(HeaderHash(hdr)), "none").val # None THEN Result("Ok", db)
        ELSE IF ~first_imported_header /\ possible_parent_header = None
        THEN Result("UnknownBlock", db)
        ELSE IF ~first_imported_header /\ NotChildOfBest(hdr, possible_parent_header[1])
        THEN Result("NotInFinalizedChain", db)
        ELSE IF ~first_imported_header /\ NotNextNumber(hdr, meta)
        THEN Result("NonSequentialFinalization", db)
        ELSE IF fault = "write" THEN Result("Backend", db)
        ELSE Result("Ok", Write(db, tx))

\* The contiguity check without its first-finalization half.
NotContiguous_ParentOnly(meta, hdr, first_block_to_be_finalized) ==
    ~first_block_to_be_finalized /\ hdr.parent # meta.finalized_hash

\* The contiguity check without its later-finalization half.
NotContiguous_FirstOnly(meta, hdr, first_block_to_be_finalized) ==
    first_block_to_be_finalized /\ HeaderHash(hdr) # meta.genesis_hash

\* The contiguity check of finalize_header.
NotContiguous(meta, hdr, first_block_to_be_finalized) ==
    \/ (~first_block_to_be_finalized /\ hdr.parent # meta.finalized_hash)
    \/ (first_block_to_be_finalized /\ HeaderHash(hdr) # meta.genesis_hash)

\* finalize_header that leaves finalized_number as it was.
FinalizedMeta_StaleNumber(meta, hdr) ==
    [meta EXCEPT
        !.non_finalized_blocks = Decrement(@),
        !.finalized_hash = HeaderHash(hdr)]

\* The record finalize_header commits for an accepted target.
FinalizedMeta(meta, hdr) ==
    [meta EXCEPT
        !.non_finalized_blocks = Decrement(@),
        !.finalized_hash = HeaderHash(hdr),
        !.finalized_number = hdr.number]

\* A batch that deletes the target's own record for its parent's.
FinalizeTx_DeletesTarget(meta, hdr, first_block_to_be_finalized) ==
    LET tx == tx_store_meta(<<>>, FinalizedMeta(meta, hdr))
    IN  IF ~first_block_to_be_finalized THEN tx_delete_header(tx, HeaderHash(hdr)) ELSE tx

\* The batch finalize_header commits: the record, and the delete of the
\* target's parent unless this is the first finalization.
FinalizeTx(meta, hdr, first_block_to_be_finalized) ==
    LET tx == tx_store_meta(<<>>, FinalizedMeta(meta, hdr))
    IN  IF ~first_block_to_be_finalized THEN tx_delete_header(tx, hdr.parent) ELSE tx

\* StorageT::finalize_header. overflow_checks is the build's choice of what
\* the unsigned decrement does at zero: abort, or wrap around.
finalize_header(db, block, overflow_checks, fault) ==
    IF fault = "read" THEN Result("Backend", db)
    ELSE
    LET possible_to_be_finalized_header == header(db, block, "none").val
        to_be_finalized_header == possible_to_be_finalized_header[1]
        possible_meta == fetch_meta(db)
        meta == possible_meta[1]
        first_block_to_be_finalized == meta.finalized_hash = DefaultHash
    IN  IF possible_to_be_finalized_header = None THEN Result("UnknownBlock", db)
        ELSE IF possible_meta = None THEN Result("Backend", db)
        ELSE IF NotContiguous(meta, to_be_finalized_header, first_block_to_be_finalized)
        THEN Result("NonSequentialFinalization", db)
        ELSE IF meta.non_finalized_blocks = 0 /\ overflow_checks
        THEN Result("Panic", db)
        ELSE IF fault = "write" THEN Result("Backend", db)
        ELSE Result("Ok", Write(db, FinalizeTx(meta, to_be_finalized_header,
                                               first_block_to_be_finalized)))

\* last_finalized that treats an unset finalized_hash as an error.
last_finalized_BackendWhenUnset(db, fault) ==
    LET possible_meta == fetch_meta(db)
    IN  IF fault = "read" THEN [res |-> "Backend", hash |-> DefaultHash]
        ELSE IF possible_meta = None \/ possible_meta[1].finalized_hash = DefaultHash
        THEN [res |-> "Backend", hash |-> DefaultHash]
        ELSE [res |-> "Ok", hash |-> possible_meta[1].finalized_hash]

\* StorageT::last_finalized
last_finalized(db, fault) ==
    LET possible_meta == fetch_meta(db)
    IN  IF fault = "read" THEN [res |-> "Backend", hash |-> DefaultHash]
        ELSE IF possible_meta = None THEN [res |-> "Backend", hash |-> DefaultHash]
        ELSE [res |-> "Ok", hash |-> possible_meta[1].finalized_hash]

\* The puts of insert_aux, then its deletes, as one batch.
RECURSIVE AuxPuts(_, _, _)
AuxPuts(tx, insert, i) ==
    IF i > Len(insert) THEN tx
    ELSE AuxPuts(Append(tx, TxPut(AUX_COLUMN, insert[i][1], insert[i][2])), insert, i + 1)

RECURSIVE AuxDeletes(_, _, _)
AuxDeletes(tx, delete, i) ==
    IF i > Len(delete) THEN tx
    ELSE AuxDeletes(Append(tx, TxDelete(AUX_COLUMN, delete[i])), delete, i + 1)

\* insert_aux that batches its deletes before its puts.
insert_aux_DeletesFirst(db, insert, delete, fault) ==
    LET tx == AuxPuts(AuxDeletes(<<>>, delete, 1), insert, 1)
    IN  IF fault = "write" THEN Result("Backend", db)
        ELSE Result("Ok", Write(db, tx))

\* AuxStore::insert_aux
insert_aux(db, insert, delete, fault) ==
    LET tx == AuxDeletes(AuxPuts(<<>>, insert, 1), delete, 1)
    IN  IF fault = "write" THEN Result("Backend", db)
        ELSE Result("Ok", Write(db, tx))

\* ------------------------------------------------------------ inputs

AuxKeys == {"k1", "k2"}
AuxVals == {"v1", "v2"}

RECURSIVE SeqsUpTo(_, _)
SeqsUpTo(S, n) ==
    IF n = 0 THEN {<<>>}
    ELSE LET shorter == SeqsUpTo(S, n - 1)
         IN  shorter \cup {Append(q, x) : q \in {r \in shorter : Len(r) = n - 1}, x \in S}

\* insert_aux: the insert list and the delete list of a call, MaxAuxOps
\* entries long together.
AuxBatches ==
    {b \in SeqsUpTo(AuxKeys \X AuxVals, MaxAuxOps) \X SeqsUpTo(AuxKeys, MaxAuxOps) :
        Len(b[1]) + Len(b[2]) <= MaxAuxOps}

\* aux_ops of import_header: (key, Some(value) or None) pairs.
AuxOpLists == {<<>>, <<<<"k1", Some("v2")>>, <<"k2", None>>>>}

\* How a call of import_header is made beside its header: the plain call, one
\* with aux_ops, one whose state is not best, and one per engine fault.
ImportModes ==
    {[is_best |-> TRUE, aux_ops |-> <<>>, fault |-> f] : f \in Faults}
    \cup {[is_best |-> b, aux_ops |-> a, fault |-> "none"] :
            b \in BOOLEAN, a \in AuxOpLists}

\* How a call of finalize_header is made beside its locator.
FinalizeModes ==
    {[overflow_checks |-> TRUE, fault |-> f] : f \in Faults}
    \cup {[overflow_checks |-> FALSE, fault |-> "none"]}

\* ------------------------------------------------------------ the system

\* The callers of the store, and a caller that is in no call.
Callers == {"a", "b"}
Idle == [pc |-> "idle"]

VARIABLES
    db,                                 \* Storage.data.db, column by column
    max_non_finalized_blocks_allowed,   \* Storage.max_non_finalized_blocks_allowed
    in_flight,      \* per caller: the call it is in, between its reads and its write
    raced           \* history: how many calls have committed after another
                    \* call's commit came between their first read and
                    \* their write

vars == <<db, max_non_finalized_blocks_allowed, in_flight, raced>>

\* Storage::new on a database that holds nothing.
Init ==
    /\ db = [c \in Columns |-> EmptyMap]
    /\ max_non_finalized_blocks_allowed \in 0..MaxAllowed
    /\ in_flight = [c \in Callers |-> Idle]
    /\ raced = 0

\* The calls of the serialized system: each runs from its first read to its
\* write with no other call in between.
ImportHeader ==
    \E hdr \in Headers, m \in ImportModes :
        /\ db' = import_header(db, max_non_finalized_blocks_allowed,
                               hdr, m.is_best, m.aux_ops, m.fault).db
        /\ UNCHANGED <<max_non_finalized_blocks_allowed, in_flight, raced>>

FinalizeHeader ==
    \E block \in BlockIds, m \in FinalizeModes :
        /\ db' = finalize_header(db, block, m.overflow_checks, m.fault).db
        /\ UNCHANGED <<max_non_finalized_blocks_allowed, in_flight, raced>>

InsertAux ==
    \E b \in AuxBatches, fault \in {"none", "write"} :
        /\ db' = insert_aux(db, b[1], b[2], fault).db
        /\ UNCHANGED <<max_non_finalized_blocks_allowed, in_flight, raced>>

Next == ImportHeader \/ FinalizeHeader \/ InsertAux

Spec == Init /\ [][Next]_vars

\* ------------------------------------------------- callers that interleave

\* The store takes no lock: every read of the engine and the write of a call
\* is a step of its own, and the steps of other callers may come between
\* them. A caller in a call holds what the call has read so far. A call
\* that returns on what its first read shows, or on the engine failing it,
\* changes nothing and is left out; a call that returns on a later read, or
\* on the engine failing a later read or the write, leaves its caller idle
\* and the store as it is.

\* A caller enters a call when it is in none; the system is followed up to
\* MaxRaces commits of calls that another call's commit has overtaken.
MayEnter(c) ==
    /\ in_flight[c] = Idle
    /\ raced < MaxRaces

\* The callers left after caller c has committed: c is idle again, and every
\* other call under way has been overtaken by a commit.
AfterCommitOf(c) ==
    [o \in Callers |->
        IF o = c THEN Idle
        ELSE IF in_flight[o] # Idle THEN [in_flight[o] EXCEPT !.stale = TRUE]
        ELSE in_flight[o]]

\* The headers interleaving callers present: those of the chain that grows
\* by the next number from a genesis header of number 0, with either digest.
\* What the store does with any other header is seen in the serialized
\* system.
ChainHeaders ==
    {h \in Headers :
        /\ [h EXCEPT !.digest = 0] \in Chained(MaxDepth)
        /\ h.parent = DefaultHash => h.number = 0}

\* The calls of insert_aux interleaving callers make: one put or one delete
\* of the first key.
ChainAuxBatches ==
    {b \in AuxBatches :
        /\ Len(b[1]) + Len(b[2]) = 1
        /\ \A i \in 1..Len(b[1]) : b[1][i] = <<"k1", "v1">>
        /\ \A i \in 1..Len(b[2]) : b[2][i] = "k1"}

\* Whether a call of import_header that has read this record can get to its
\* write. The header it will read at best_hash, if any, has best_hash for
\* its hash, every Header Record being stored under the hash of its header;
\* so a header with another parent, or with another number than
\* best_number + 1, is refused whatever the call reads next.
CanReachWrite(meta, hdr) ==
    meta.best_hash # DefaultHash
        => (hdr.parent = meta.best_hash /\ ~NotNextNumber(hdr, meta))

\* import_header: fetch_meta and the backlog check. A call that cannot get
\* to its write is left out.
ImportFetchMeta(c) ==
    \E hdr \in ChainHeaders :
        LET possible_meta == fetch_meta(db)
            meta == IF possible_meta = None THEN DefaultMeta ELSE possible_meta[1]
        IN  /\ MayEnter(c)
            /\ ~BacklogFull(meta, max_non_finalized_blocks_allowed)
            /\ CanReachWrite(meta, hdr)
            /\ in_flight' = [in_flight EXCEPT ![c] =
                    [pc |-> "import_fetched", hdr |-> hdr, meta |-> meta,
                     stale |-> FALSE]]
            /\ UNCHANGED <<db, max_non_finalized_blocks_allowed, raced>>

\* import_header: the read of the header's own record; a failed read or a
\* stored header ends the call, a first import goes on to the write.
ImportReadHeader(c) ==
    \E fault \in ReadFaults :
        /\ in_flight[c].pc = "import_fetched"
        /\ LET call == in_flight[c]
               possible_header == header(db, ByHash(HeaderHash(call.hdr)), fault)
               first_imported_header == call.meta.best_hash = DefaultHash
           IN  in_flight' = [in_flight EXCEPT ![c] =
                    IF possible_header.res # "Ok" THEN Idle
                    ELSE IF possible_header.val # None THEN Idle
                    ELSE IF first_imported_header
                    THEN [call EXCEPT !.pc = "import_checked"]
                    ELSE [call EXCEPT !.pc = "import_new"]]
        /\ UNCHANGED <<db, max_non_finalized_blocks_allowed, raced>>

\* import_header: the read of the header at best_hash and the two checks
\* against it and the record.
ImportReadParent(c) ==
    \E fault \in ReadFaults :
        /\ in_flight[c].pc = "import_new"
        /\ LET call == in_flight[c]
               possible_parent_header == header(db, ByHash(call.meta.best_hash), fault)
           IN  in_flight' = [in_flight EXCEPT ![c] =
                    IF possible_parent_header.res # "Ok" THEN Idle
                    ELSE IF possible_parent_header.val = None THEN Idle
                    ELSE IF NotChildOfBest(call.hdr, possible_parent_header.val[1])
                    THEN Idle
                    ELSE IF NotNextNumber(call.hdr, call.meta) THEN Idle
                    ELSE [call EXCEPT !.pc = "import_checked"]]
        /\ UNCHANGED <<db, max_non_finalized_blocks_allowed, raced>>

\* The engine fails the write of caller c: nothing is written and the call
\* returns.
WriteFailed(c) ==
    /\ in_flight' = [in_flight EXCEPT ![c] = Idle]
    /\ UNCHANGED <<db, max_non_finalized_blocks_allowed, raced>>

\* import_header: the write of the batch built from the record read first.
CommitImport(c) ==
    \E fault \in {"none", "write"} :
        /\ in_flight[c].pc = "import_checked"
        /\ IF fault = "write" THEN WriteFailed(c)
           ELSE /\ LET call == in_flight[c]
                   IN  db' = Write(db, ImportTx(call.meta, call.hdr,
                                                call.meta.best_hash = DefaultHash))
                /\ in_flight' = AfterCommitOf(c)
                /\ raced' = IF in_flight[c].stale THEN raced + 1 ELSE raced
                /\ UNCHANGED max_non_finalized_blocks_allowed

\* finalize_header: the read of the target.
FinalizeReadHeader(c) ==
    \E block \in BlockIds :
        LET possible_to_be_finalized_header == header(db, block, "none").val
        IN  /\ MayEnter(c)
            /\ possible_to_be_finalized_header # None
            /\ in_flight' = [in_flight EXCEPT ![c] =
                    [pc |-> "finalize_read", hdr |-> possible_to_be_finalized_header[1],
                     meta |-> DefaultMeta, stale |-> FALSE]]
            /\ UNCHANGED <<db, max_non_finalized_blocks_allowed, raced>>

\* finalize_header: fetch_meta, the contiguity check and the decrement, in a
\* build with or without overflow checks.
FinalizeFetchMeta(c) ==
    \E overflow_checks \in BOOLEAN, fault \in ReadFaults :
        /\ in_flight[c].pc = "finalize_read"
        /\ LET call == in_flight[c]
               possible_meta == fetch_meta(db)
               meta == possible_meta[1]
           IN  in_flight' = [in_flight EXCEPT ![c] =
                    IF fault = "read" THEN Idle
                    ELSE IF possible_meta = None THEN Idle
                    ELSE IF NotContiguous(meta, call.hdr, meta.finalized_hash = DefaultHash)
                    THEN Idle
                    ELSE IF meta.non_finalized_blocks = 0 /\ overflow_checks THEN Idle
                    ELSE [call EXCEPT !.pc = "finalize_checked", !.meta = meta]]
        /\ UNCHANGED <<db, max_non_finalized_blocks_allowed, raced>>

\* finalize_header: the write of the batch.
CommitFinalize(c) ==
    \E fault \in {"none", "write"} :
        /\ in_flight[c].pc = "finalize_checked"
        /\ IF fault = "write" THEN WriteFailed(c)
           ELSE /\ LET call == in_flight[c]
                   IN  db' = Write(db, FinalizeTx(call.meta, call.hdr,
                                                  call.meta.finalized_hash = DefaultHash))
                /\ in_flight' = AfterCommitOf(c)
                /\ raced' = IF in_flight[c].stale THEN raced + 1 ELSE raced
                /\ UNCHANGED max_non_finalized_blocks_allowed

\* insert_aux is one write, done or failed by the engine, and leaves the
\* calls under way as they are.
InsertAuxBetween ==
    \E b \in ChainAuxBatches, fault \in {"none", "write"} :
        /\ db' = insert_aux(db, b[1], b[2], fault).db
        /\ UNCHANGED <<max_non_finalized_blocks_allowed, in_flight, raced>>

NextInterleaved ==
    \/ \E c \in Callers :
        \/ ImportFetchMeta(c)
        \/ ImportReadHeader(c)
        \/ ImportReadParent(c)
        \/ CommitImport(c)
        \/ FinalizeReadHeader(c)
        \/ FinalizeFetchMeta(c)
        \/ CommitFinalize(c)
    \/ InsertAuxBetween

SpecInterleaved == Init /\ [][NextInterleaved]_vars

\* ------------------------------------------------------------ what the claims speak of

\* The Metadata Record, when the store has one.
HasMeta == fetch_meta(db) # None
Meta == fetch_meta(db)[1]
MetaOf(d) == fetch_meta(d)[1]

\* The record a call of import_header starts from.
LoadedMeta == IF HasMeta THEN Meta ELSE DefaultMeta

\* The keys of the Header Records.
StoredHashes == DOMAIN db[HEADER_COLUMN]
StoredIn(d) == DOMAIN d[HEADER_COLUMN]

\* Calls within the contract of import_header (state is best) that meet no
\* engine fault, with and without aux_ops; and all calls within the contract.
SoundImportModes == {m \in ImportModes : m.is_best /\ m.fault = "none"}
BestImportModes == {m \in ImportModes : m.is_best}

ImportWith(d, hdr, m) ==
    import_header(d, max_non_finalized_blocks_allowed, hdr, m.is_best, m.aux_ops, m.fault)

\* The plain calls: state best, no aux_ops, no engine fault.
Import(d, hdr) ==
    import_header(d, max_non_finalized_blocks_allowed, hdr, TRUE, <<>>, "none")
Finalize(d, block) == finalize_header(d, block, TRUE, "none")

\* The headers that extend the best header of a database by one, and every
\* header a call on that database is tried with: the input universe and those.
ChildrenOfBest(d) ==
    IF fetch_meta(d) = None THEN {}
    ELSE {[parent |-> MetaOf(d).best_hash, number |-> MetaOf(d).best_number + 1,
           digest |-> g] : g \in Digests}

Presented(d) == Headers \cup ChildrenOfBest(d)

\* The Metadata Record and the Header Records of a database.
ChainPart(d) == <<d[META_COLUMN], d[HEADER_COLUMN]>>

\* ------------------------------------------------------------ C1

\* C1 as stated: once genesis_hash is set,
\* best_number - finalized_number = non_finalized_blocks.
C1_AsStated ==
    (HasMeta /\ Meta.genesis_hash # DefaultHash)
        => Meta.best_number - Meta.finalized_number = Meta.non_finalized_blocks

\* C1 (amended): once a block has been finalized, best_number -
\* finalized_number = non_finalized_blocks; between the first import and the
\* first finalization finalized_number is still 0 and the counter is
\* best_number - (number of the genesis header) + 1.
C1_CounterMatchesHeights ==
    HasMeta =>
        /\ Meta.genesis_hash # DefaultHash
        /\ Meta.finalized_hash # DefaultHash
            => Meta.best_number - Meta.finalized_number = Meta.non_finalized_blocks
        /\ Meta.finalized_hash = DefaultHash
            => /\ Meta.finalized_number = 0
               /\ Meta.genesis_hash \in StoredHashes
               /\ Meta.non_finalized_blocks
                    = Meta.best_number - db[HEADER_COLUMN][Meta.genesis_hash].number + 1

\* A second finalization has happened while a header is still not finalized.
C1_Witness ==
    /\ HasMeta
    /\ Meta.finalized_hash # DefaultHash
    /\ Meta.finalized_hash # Meta.genesis_hash
    /\ Meta.non_finalized_blocks = 1

\* ------------------------------------------------------------ C2

\* C2 as stated: whenever import_header(H) returns success, calling it again
\* with the same H returns success and leaves Metadata Record and Header
\* Records as the first call left them.
C2_AsStated ==
    \A hdr \in Presented(db) :
        LET r1 == Import(db, hdr)
            r2 == Import(r1.db, hdr)
        IN  r1.res = "Ok" => (r2.res = "Ok" /\ ChainPart(r2.db) = ChainPart(r1.db))

\* C2 (amended): whenever import_header(H) returns success, calling it again
\* with the same H leaves the whole store as the first call left it, and
\* returns success unless the first call has filled the backlog
\* (non_finalized_blocks = max_non_finalized_blocks_allowed), in which case
\* the second call fails with Backend.
C2_ReimportChangesNothing ==
    \A hdr \in Presented(db) :
        LET r1 == Import(db, hdr)
            r2 == Import(r1.db, hdr)
            full == MetaOf(r1.db).non_finalized_blocks >= max_non_finalized_blocks_allowed
        IN  r1.res = "Ok" =>
                /\ fetch_meta(r1.db) # None
                /\ header(r1.db, ByHash(HeaderHash(hdr)), "none").val = Some(hdr)
                /\ r2.db = r1.db
                /\ r2.res = IF full THEN "Backend" ELSE "Ok"

\* A second header was imported and the backlog is still below its bound, so
\* that importing that header again is the successful no-op.
C2_Witness ==
    /\ HasMeta
    /\ Meta.non_finalized_blocks < max_non_finalized_blocks_allowed
    /\ Meta.best_hash \in StoredHashes
    /\ Meta.best_hash # Meta.genesis_hash
    /\ Import(db, db[HEADER_COLUMN][Meta.best_hash]).res = "Ok"

\* ------------------------------------------------------------ C3

\* C3: non_finalized_blocks never exceeds max_non_finalized_blocks_allowed,
\* and while it has reached that bound every call of import_header (whatever
\* the header, already stored or not, with or without aux_ops, whatever the
\* engine does) fails with Backend and changes nothing in the store.
C3_BacklogBound ==
    /\ HasMeta => Meta.non_finalized_blocks <= max_non_finalized_blocks_allowed
    /\ LoadedMeta.non_finalized_blocks >= max_non_finalized_blocks_allowed
        => \A hdr \in Presented(db), m \in BestImportModes :
               /\ ImportWith(db, hdr, m).res = "Backend"
               /\ ImportWith(db, hdr, m).db = db

\* Imports have filled a backlog of two, one of them after a finalization.
C3_Witness ==
    /\ HasMeta
    /\ max_non_finalized_blocks_allowed = 2
    /\ Meta.non_finalized_blocks = max_non_finalized_blocks_allowed
    /\ Meta.finalized_hash # DefaultHash
    /\ \E hdr \in ChildrenOfBest(db) : Import(db, hdr).res = "Backend"

\* ------------------------------------------------------------ C4

\* The store holds max_non_finalized_blocks_allowed imported headers and
\* nothing was ever finalized.
FilledWithoutFinalizing ==
    /\ LoadedMeta.finalized_hash = DefaultHash
    /\ LoadedMeta.non_finalized_blocks = max_non_finalized_blocks_allowed
    /\ Cardinality(StoredHashes) = max_non_finalized_blocks_allowed

\* C4: after max_non_finalized_blocks_allowed imports and no finalization,
\* the next import fails with Backend; after one successful finalization the
\* import of a child of the best header succeeds, and the import of a child
\* of that one fails with Backend again.
C4_OneFinalizationFreesOneSlot ==
    FilledWithoutFinalizing =>
        /\ \A hdr \in Presented(db) : Import(db, hdr).res = "Backend"
        /\ \A block \in BlockIds :
               LET f == Finalize(db, block)
               IN  f.res = "Ok" =>
                       \A h2 \in ChildrenOfBest(f.db) :
                           LET i2 == Import(f.db, h2)
                           IN  /\ i2.res = "Ok"
                               /\ MetaOf(i2.db).best_hash = HeaderHash(h2)
                               /\ \A h3 \in Presented(i2.db) :
                                      Import(i2.db, h3).res = "Backend"

\* The end of that run with a bound of two: two imports, the genesis header
\* finalized, a third header imported, and the backlog full again.
C4_Witness ==
    /\ HasMeta
    /\ max_non_finalized_blocks_allowed = 2
    /\ Meta.finalized_hash = Meta.genesis_hash
    /\ Cardinality(StoredHashes) = 3
    /\ Meta.non_finalized_blocks = 2
    /\ \A h3 \in ChildrenOfBest(db) : Import(db, h3).res = "Backend"

\* ------------------------------------------------------------ C5

\* C5: with H1 the stored best header and the backlog below its bound, every
\* H2 with H2.parent = H1.hash and H2.number = H1.number + 1 is accepted:
\* import_header returns success, H2 is the new best (hash and number), H2 is
\* retrievable by hash and non_finalized_blocks has grown by one.
C5_SequentialImportAccepted ==
    (/\ HasMeta
     /\ Meta.best_hash \in StoredHashes
     /\ Meta.non_finalized_blocks < max_non_finalized_blocks_allowed)
    => LET H1 == db[HEADER_COLUMN][Meta.best_hash]
       IN  \A H2 \in Presented(db), m \in SoundImportModes :
               (/\ H2.parent = HeaderHash(H1)
                /\ H2.number = H1.number + 1
                /\ HeaderHash(H2) \notin StoredHashes)
               => LET r == ImportWith(db, H2, m)
                  IN  /\ r.res = "Ok"
                      /\ MetaOf(r.db).best_hash = HeaderHash(H2)
                      /\ MetaOf(r.db).best_number = H2.number
                      /\ header(r.db, ByHash(HeaderHash(H2)), "none").val = Some(H2)
                      /\ MetaOf(r.db).non_finalized_blocks
                            = Meta.non_finalized_blocks + 1

\* Two headers were imported on top of the genesis header: the best header's
\* parent is stored and is not the genesis header, and neither is finalized.
C5_Witness ==
    /\ HasMeta
    /\ Meta.non_finalized_blocks = 2
    /\ Meta.best_hash \in StoredHashes
    /\ db[HEADER_COLUMN][Meta.best_hash].parent \in StoredHashes \ {Meta.genesis_hash}

\* ------------------------------------------------------------ C6

\* Calls within the contract whose reads the engine serves.
ReadableImportModes == {m \in ImportModes : m.is_best /\ m.fault # "read"}

\* C6: on a non-empty store with the backlog below its bound, a header H that
\* is not stored is rejected with NotInFinalizedChain when H.parent is not
\* best_hash or H.number <= best_number, and with NonSequentialFinalization
\* when H.parent = best_hash, H.number > best_number and H.number is not
\* best_number + 1; the store is unchanged in both cases.
C6_RejectionClassification ==
    (HasMeta /\ Meta.non_finalized_blocks < max_non_finalized_blocks_allowed)
    => \A H \in Presented(db), m \in ReadableImportModes :
           HeaderHash(H) \notin StoredHashes
           => LET r == ImportWith(db, H, m)
              IN  /\ (H.parent # Meta.best_hash \/ H.number <= Meta.best_number)
                        => (r.res = "NotInFinalizedChain" /\ r.db = db)
                  /\ (/\ H.parent = Meta.best_hash
                      /\ H.number > Meta.best_number
                      /\ H.number # Meta.best_number + 1)
                        => (r.res = "NonSequentialFinalization" /\ r.db = db)

\* After a finalization, the store rejects one child of the best header for
\* skipping a number and another for repeating the best number.
C6_Witness ==
    /\ HasMeta
    /\ Meta.finalized_hash # DefaultHash
    /\ Meta.non_finalized_blocks < max_non_finalized_blocks_allowed
    /\ \E H \in Headers :
           /\ H.parent = Meta.best_hash
           /\ H.number = Meta.best_number + 2
           /\ Import(db, H).res = "NonSequentialFinalization"
    /\ \E H \in Headers :
           /\ H.parent = Meta.best_hash
           /\ H.number = Meta.best_number
           /\ Import(db, H).res = "NotInFinalizedChain"

\* ------------------------------------------------------------ C7

\* The contiguity condition as the claim words it, for a target header t.
Contiguous(t) ==
    \/ (Meta.finalized_hash = DefaultHash /\ HeaderHash(t) = Meta.genesis_hash)
    \/ (Meta.finalized_hash # DefaultHash /\ t.parent = Meta.finalized_hash)

\* C7: for a stored target, finalize_header succeeds only if nothing was
\* finalized and the target is the genesis header, or something was and the
\* target's parent is finalized_hash (and then it does succeed); otherwise it
\* fails with NonSequentialFinalization and changes nothing. On success
\* finalized_hash and finalized_number are the target's and
\* non_finalized_blocks is one less.
C7_FinalizationContiguity ==
    \A block \in BlockIds, checks \in BOOLEAN :
        header(db, block, "none").val # None
        => LET t == header(db, block, "none").val[1]
               f == finalize_header(db, block, checks, "none")
           IN  /\ HasMeta
               /\ (f.res = "Ok") <=> Contiguous(t)
               /\ ~Contiguous(t)
                    => (f.res = "NonSequentialFinalization" /\ f.db = db)
               /\ f.res = "Ok"
                    => /\ MetaOf(f.db).finalized_hash = HeaderHash(t)
                       /\ MetaOf(f.db).finalized_number = t.number
                       /\ MetaOf(f.db).non_finalized_blocks
                            = Meta.non_finalized_blocks - 1
                       /\ MetaOf(f.db).non_finalized_blocks >= 0

\* Two finalizations have happened; the finalized header is stored and
\* finalizing it again is refused, while the best header can be finalized.
C7_Witness ==
    /\ HasMeta
    /\ Meta.finalized_hash \in StoredHashes \ {Meta.genesis_hash}
    /\ Meta.best_hash # Meta.finalized_hash
    /\ Finalize(db, ByHash(Meta.finalized_hash)).res = "NonSequentialFinalization"
    /\ Finalize(db, ByHash(Meta.best_hash)).res = "Ok"

\* ------------------------------------------------------------ C8

\* C8: a successful finalize_header removes no Header Record when it is the
\* first finalization, and exactly the record of the target's parent otherwise;
\* the parent is then not retrievable, and the finalized header and every
\* other stored header are retrievable as before.
C8_Pruning ==
    \A block \in BlockIds, checks \in BOOLEAN :
        LET f == finalize_header(db, block, checks, "none")
            t == header(db, block, "none").val[1]
        IN  f.res = "Ok"
            => /\ HeaderHash(t) \in StoredIn(f.db)
               /\ \A h \in StoredIn(f.db) : f.db[HEADER_COLUMN][h] = db[HEADER_COLUMN][h]
               /\ IF Meta.finalized_hash = DefaultHash
                  THEN StoredIn(f.db) = StoredHashes
                  ELSE /\ t.parent \in StoredHashes
                       /\ StoredIn(f.db) = StoredHashes \ {t.parent}
                       /\ header(f.db, ByHash(t.parent), "none").val = None

\* The genesis header has been pruned by the second finalization, and a later
\* header that is not finalized is stored next to the finalized one.
C8_Witness ==
    /\ HasMeta
    /\ Meta.genesis_hash \notin StoredHashes
    /\ Meta.finalized_hash \in StoredHashes
    /\ Meta.best_hash \in StoredHashes \ {Meta.finalized_hash}
    /\ header(db, ByHash(Meta.genesis_hash), "none").val = None

\* ------------------------------------------------------------ C9

\* On a store without Metadata Record, a successful import of a header that
\* writes makes that header's hash the genesis_hash.
FirstImportSetsGenesis ==
    ~HasMeta
    => \A hdr \in Headers, m \in SoundImportModes :
           LET r == ImportWith(db, hdr, m)
           IN  r.res = "Ok"
               => /\ fetch_meta(r.db) # None
                  /\ MetaOf(r.db).genesis_hash = HeaderHash(hdr)
                  /\ HeaderHash(hdr) # DefaultHash

\* A step of import_header, finalize_header or insert_aux, failed or not,
\* keeps the Metadata Record once there is one, and keeps its genesis_hash.
GenesisKept ==
    HasMeta => (HasMeta' /\ Meta'.genesis_hash = Meta.genesis_hash)

\* C9: the first successful import on an empty store sets genesis_hash to
\* that header's hash (never the unset hash), and no later call of
\* import_header, finalize_header or insert_aux changes genesis_hash.
C9_GenesisSetOnce ==
    /\ [](FirstImportSetsGenesis /\ (HasMeta => Meta.genesis_hash # DefaultHash))
    /\ [][GenesisKept]_vars

\* The genesis header has been pruned, a later header imported and an
\* auxiliary record written, and genesis_hash still names the first header,
\* which is the only stored or pruned header with the unset parent hash.
C9_Witness ==
    /\ HasMeta
    /\ Meta.genesis_hash \notin StoredHashes
    /\ Meta.genesis_hash \in {HeaderHash(h) : h \in Chained(1)}
    /\ Meta.best_hash # Meta.finalized_hash
    /\ db[AUX_COLUMN] # EmptyMap

\* ------------------------------------------------------------ C10

\* Whether hash a is hash b or is reached from b along the parent fields of
\* the stored headers, in at most n steps.
RECURSIVE AncestorOrEqual(_, _, _, _)
AncestorOrEqual(d, a, b, n) ==
    IF a = b THEN TRUE
    ELSE IF n = 0 \/ b \notin StoredIn(d) THEN FALSE
    ELSE AncestorOrEqual(d, a, d[HEADER_COLUMN][b].parent, n - 1)

\* C10: once a block has been finalized, finalized_hash is best_hash or an
\* ancestor of best_hash along the parent links of the stored chain, and
\* finalized_number <= best_number.
C10_FinalizedIsAncestorOfBest ==
    (HasMeta /\ Meta.finalized_hash # DefaultHash)
    => /\ AncestorOrEqual(db, Meta.finalized_hash, Meta.best_hash,
                          Cardinality(StoredHashes))
       /\ Meta.finalized_number <= Meta.best_number
       /\ Meta.finalized_hash \in StoredHashes
       /\ db[HEADER_COLUMN][Meta.finalized_hash].number = Meta.finalized_number

\* The finalized header is the grandparent of the best header.
C10_Witness ==
    /\ HasMeta
    /\ Meta.finalized_hash # DefaultHash
    /\ Meta.best_hash \in StoredHashes
    /\ db[HEADER_COLUMN][Meta.best_hash].parent \in StoredHashes
    /\ db[HEADER_COLUMN][db[HEADER_COLUMN][Meta.best_hash].parent].parent
            = Meta.finalized_hash

\* ------------------------------------------------------------ C11

\* The store after the first import and before any finalization: the one
\* stored header is genesis and best, nothing is finalized.
AfterFirstImport ==
    /\ HasMeta
    /\ Meta.finalized_hash = DefaultHash
    /\ Meta.best_hash = Meta.genesis_hash
    /\ StoredHashes = {Meta.genesis_hash}

\* C11 as stated: after the first header has been imported into an empty
\* store and before any finalize_header call, last_finalized() fails with
\* Backend, whatever the engine does to its read.
C11_AsStated ==
    AfterFirstImport =>
        \A fault \in ReadFaults : last_finalized(db, fault).res = "Backend"

\* C11 (amended): after the first header has been imported into an empty
\* store and before any finalization, last_finalized(), when the engine
\* answers its read, succeeds and returns the unset (zero) hash. It fails
\* with Backend when the engine fails the read, and otherwise exactly when
\* the store has no Metadata Record, that is before the first import; with
\* a record read it returns the record's finalized_hash.
C11_LastFinalizedNeedsOnlyTheRecord ==
    /\ AfterFirstImport
        => last_finalized(db, "none") = [res |-> "Ok", hash |-> DefaultHash]
    /\ last_finalized(db, "none").res = "Backend" <=> ~HasMeta
    /\ HasMeta => last_finalized(db, "none") = [res |-> "Ok", hash |-> Meta.finalized_hash]
    /\ last_finalized(db, "read").res = "Backend"
    /\ \A fault \in ReadFaults : last_finalized(db, fault).res \in {"Ok", "Backend"}

\* The first header is imported, nothing is finalized, and last_finalized()
\* answers with the zero hash.
C11_Witness ==
    /\ AfterFirstImport
    /\ Meta.non_finalized_blocks = 1
    /\ last_finalized(db, "none").res = "Ok"
    /\ last_finalized(db, "none").hash = DefaultHash

\* ------------------------------------------------------------ C12

\* The store of the scenario: H0 with number 0 imported, H1 with number 1
\* and parent H0 imported, H0 finalized. Two imports in a row need room for
\* two headers in the backlog.
TwoImportedOneFinalized ==
    /\ max_non_finalized_blocks_allowed >= 2
    /\ HasMeta
    /\ Meta.finalized_hash = Meta.genesis_hash
    /\ Meta.finalized_hash # DefaultHash
    /\ Meta.finalized_number = 0
    /\ Meta.best_number = 1
    /\ Meta.non_finalized_blocks = 1
    /\ Meta.best_hash \in StoredHashes
    /\ db[HEADER_COLUMN][Meta.best_hash].parent = Meta.genesis_hash
    /\ StoredHashes = {Meta.genesis_hash, Meta.best_hash}

\* The headers with number 1 that the store of the scenario does not hold.
NewAtHeightOne ==
    {hdr \in Presented(db) : hdr.number = 1 /\ HeaderHash(hdr) \notin StoredHashes}

\* C12 as stated: in the store of the scenario, importing a new header H2
\* with number 1 is rejected with NonSequentialFinalization.
C12_AsStated ==
    TwoImportedOneFinalized =>
        \A hdr \in NewAtHeightOne :
            Import(db, hdr).res = "NonSequentialFinalization"

\* C12 (amended): in the store of the scenario, importing a new header H2
\* with number 1 is rejected with NotInFinalizedChain, whatever its parent,
\* and leaves the store unchanged: the check of the number against the best
\* header's comes first.
C12_DuplicateHeightRejected ==
    TwoImportedOneFinalized =>
        \A hdr \in NewAtHeightOne :
            Import(db, hdr) = Result("NotInFinalizedChain", db)

\* The store of the scenario, offered a new header of number 1 whose parent
\* is the best header, and one whose parent is the finalized header.
C12_Witness ==
    /\ TwoImportedOneFinalized
    /\ \E hdr \in NewAtHeightOne :
        /\ hdr.parent = Meta.best_hash
        /\ Import(db, hdr).res = "NotInFinalizedChain"
    /\ \E hdr \in NewAtHeightOne :
        /\ hdr.parent = Meta.finalized_hash
        /\ Import(db, hdr).res = "NotInFinalizedChain"

\* ------------------------------------------------------------ C13

\* The database is d with exactly the batch of an accepted import of hdr
\* committed: the record replaced and the header put, nothing else.
WholeImportBatch(d, e, hdr) ==
    /\ e[META_COLUMN] # d[META_COLUMN]
    /\ HeaderHash(hdr) \notin DOMAIN d[HEADER_COLUMN]
    /\ DOMAIN e[HEADER_COLUMN] = DOMAIN d[HEADER_COLUMN] \cup {HeaderHash(hdr)}
    /\ e[HEADER_COLUMN][HeaderHash(hdr)] = hdr
    /\ \A k \in DOMAIN d[HEADER_COLUMN] : e[HEADER_COLUMN][k] = d[HEADER_COLUMN][k]
    /\ e[AUX_COLUMN] = d[AUX_COLUMN]
    /\ e[LOOKUP_COLUMN] = d[LOOKUP_COLUMN]

\* The database is d with exactly the batch of an accepted finalization of
\* t committed: the record replaced and, unless it is the first
\* finalization, the record of t's parent deleted.
WholeFinalizeBatch(d, e, t) ==
    /\ e[META_COLUMN] # d[META_COLUMN]
    /\ e[META_COLUMN][META_KEY].finalized_hash = HeaderHash(t)
    /\ DOMAIN e[HEADER_COLUMN]
         = IF MetaOf(d).finalized_hash = DefaultHash
           THEN DOMAIN d[HEADER_COLUMN]
           ELSE DOMAIN d[HEADER_COLUMN] \ {t.parent}
    /\ MetaOf(d).finalized_hash # DefaultHash => t.parent \in DOMAIN d[HEADER_COLUMN]
    /\ \A k \in DOMAIN e[HEADER_COLUMN] : e[HEADER_COLUMN][k] = d[HEADER_COLUMN][k]
    /\ e[AUX_COLUMN] = d[AUX_COLUMN]
    /\ e[LOOKUP_COLUMN] = d[LOOKUP_COLUMN]

\* C13: every import_header and finalize_header call, whatever the engine
\* does to it, either commits its whole batch (the record together with the
\* header put or the header delete) or leaves all four columns unchanged;
\* every call that returns an error or aborts leaves the store as it was.
C13_NoPartialOutcome ==
    /\ \A hdr \in Presented(db), m \in ImportModes :
        LET r == ImportWith(db, hdr, m)
        IN  /\ r.res # "Ok" => r.db = db
            /\ r.res = "Ok" => (r.db = db \/ WholeImportBatch(db, r.db, hdr))
    /\ \A block \in BlockIds, m \in FinalizeModes :
        LET r == finalize_header(db, block, m.overflow_checks, m.fault)
        IN  /\ r.res # "Ok" => r.db = db
            /\ r.res = "Ok"
                => WholeFinalizeBatch(db, r.db, header(db, block, "none").val[1])

\* A store with a finalized header and a backlog, where an import and a
\* finalization commit their batches, the same calls fail on their write
\* and change nothing, and a rejected import changes nothing.
C13_Witness ==
    /\ HasMeta
    /\ Meta.finalized_hash # DefaultHash
    /\ \E hdr \in Presented(db) :
        /\ WholeImportBatch(db, Import(db, hdr).db, hdr)
        /\ \E m \in ImportModes :
            /\ m.is_best /\ m.fault = "write"
            /\ ImportWith(db, hdr, m) = Result("Backend", db)
    /\ \E hdr \in Presented(db) :
        Import(db, hdr) = Result("NotInFinalizedChain", db)
    /\ \E block \in BlockIds :
        /\ Finalize(db, block).res = "Ok"
        /\ WholeFinalizeBatch(db, Finalize(db, block).db, header(db, block, "none").val[1])
        /\ finalize_header(db, block, TRUE, "write") = Result("Backend", db)

\* ------------------------------------------------------------ C15

\* In a store with a finalized header, an accepted finalization targets a
\* stored direct child of it and moves finalized_hash and finalized_number to
\* that child, one number up; no header numbered at or below
\* finalized_number, stored or not, is accepted, however the call is made.
FinalizesOnlyTheNext ==
    (HasMeta /\ Meta.finalized_hash # DefaultHash) =>
        /\ \A block \in BlockIds, m \in FinalizeModes :
            LET r == finalize_header(db, block, m.overflow_checks, m.fault)
                t == header(db, block, "none").val[1]
            IN  r.res = "Ok"
                => /\ t.parent = Meta.finalized_hash
                   /\ t.number = Meta.finalized_number + 1
                   /\ MetaOf(r.db).finalized_hash = HeaderHash(t)
                   /\ MetaOf(r.db).finalized_number = Meta.finalized_number + 1
        /\ \A h \in Presented(db), m \in FinalizeModes :
            h.number <= Meta.finalized_number
                => finalize_header(db, ByHash(HeaderHash(h)),
                                   m.overflow_checks, m.fault).res # "Ok"
        /\ Finalize(db, ByHash(Meta.finalized_hash)).res = "NonSequentialFinalization"

\* A step of any operation keeps finalized_number or raises it; a step that
\* replaces a set finalized_hash raises finalized_number by one, moves to a
\* header whose parent is the replaced one, and leaves the replaced header
\* unknown to finalize_header.
FinalizedForward ==
    HasMeta =>
        /\ HasMeta'
        /\ Meta'.finalized_number >= Meta.finalized_number
        /\ (Meta.finalized_hash # DefaultHash /\ Meta'.finalized_hash # Meta.finalized_hash)
            => /\ Meta'.finalized_number = Meta.finalized_number + 1
               /\ Meta'.finalized_hash \in DOMAIN db[HEADER_COLUMN]
               /\ db[HEADER_COLUMN][Meta'.finalized_hash].parent = Meta.finalized_hash
               /\ Finalize(db', ByHash(Meta.finalized_hash)).res = "UnknownBlock"

\* C15: finalized_number never decreases; every successful finalize_header
\* after the first raises it by one and sets finalized_hash to the direct
\* child of the previous finalized_hash; a header already finalized, pruned
\* or not, is never finalized again.
C15_FinalizationMovesForward ==
    /\ [](FinalizesOnlyTheNext)
    /\ [][FinalizedForward]_vars

\* A second finalization has happened, a child of the finalized header is
\* stored and can be finalized, and the finalized header cannot.
C15_Witness ==
    /\ HasMeta
    /\ Meta.finalized_hash # DefaultHash
    /\ Meta.finalized_hash # Meta.genesis_hash
    /\ Meta.genesis_hash \notin StoredHashes
    /\ \E block \in BlockIds : Finalize(db, block).res = "Ok"
    /\ Finalize(db, ByHash(Meta.finalized_hash)).res = "NonSequentialFinalization"
    /\ Finalize(db, ByHash(Meta.genesis_hash)).res = "UnknownBlock"

\* ------------------------------------------------------------ C16

\* C16: import_header and finalize_header leave AUX and LOOKUP unchanged
\* however they are called, aux_ops included; LOOKUP holds nothing, so
\* header(ByNumber(n)) and hash(n) return None and finalize_header(ByNumber(n))
\* fails with UnknownBlock for every n, unless the engine fails the read of
\* LOOKUP, which gives Backend and never a header or a hash; insert_aux
\* leaves the Metadata Record, the Header Records and LOOKUP unchanged.
C16_ColumnIsolation ==
    /\ \A hdr \in Presented(db), m \in ImportModes :
        LET r == ImportWith(db, hdr, m)
        IN  /\ r.db[AUX_COLUMN] = db[AUX_COLUMN]
            /\ r.db[LOOKUP_COLUMN] = db[LOOKUP_COLUMN]
    /\ \A block \in BlockIds, m \in FinalizeModes :
        LET r == finalize_header(db, block, m.overflow_checks, m.fault)
        IN  /\ r.db[AUX_COLUMN] = db[AUX_COLUMN]
            /\ r.db[LOOKUP_COLUMN] = db[LOOKUP_COLUMN]
    /\ db[LOOKUP_COLUMN] = EmptyMap
    /\ \A n \in Numbers :
        /\ header(db, ByNumber(n), "none") = Read(None)
        /\ header_hash(db, n, "none") = Read(None)
        /\ header(db, ByNumber(n), "read") = ReadFailed
        /\ header_hash(db, n, "read") = ReadFailed
        /\ \A m \in FinalizeModes :
            finalize_header(db, ByNumber(n), m.overflow_checks, m.fault)
              = IF m.fault = "read" THEN Result("Backend", db)
                ELSE Result("UnknownBlock", db)
    /\ \A b \in AuxBatches, fault \in {"none", "write"} :
        LET r == insert_aux(db, b[1], b[2], fault)
        IN  /\ ChainPart(r.db) = ChainPart(db)
            /\ r.db[LOOKUP_COLUMN] = db[LOOKUP_COLUMN]

\* A store with auxiliary records and a stored header of number 1 that an
\* import with aux_ops extends and a finalization by hash moves on, while
\* the header is not found by its number.
C16_Witness ==
    /\ HasMeta
    /\ db[AUX_COLUMN] # EmptyMap
    /\ \E k \in StoredHashes :
        /\ db[HEADER_COLUMN][k].number = 1
        /\ header(db, ByNumber(1), "none").val = None
        /\ Finalize(db, ByHash(k)).res = "Ok"
        /\ Finalize(db, ByNumber(1)).res = "UnknownBlock"
    /\ \E hdr \in Presented(db), m \in SoundImportModes :
        /\ m.aux_ops # <<>>
        /\ ImportWith(db, hdr, m).res = "Ok"
        /\ ImportWith(db, hdr, m).db # db
    /\ \E b \in AuxBatches : insert_aux(db, b[1], b[2], "none").db # db

\* ------------------------------------------------------------ C17

\* The keys and the last value put for a key in an insert list.
PutKeys(insert) == {insert[i][1] : i \in 1..Len(insert)}
LastPut(insert, k) ==
    LET at == {i \in 1..Len(insert) : insert[i][1] = k}
    IN  insert[CHOOSE i \in at : \A j \in at : j <= i][2]
DeleteKeys(delete) == {delete[i] : i \in 1..Len(delete)}

\* C17: after a successful insert_aux(inserts, deletes), get_aux(k), when
\* the engine answers its read, is None for every k in deletes, also when k
\* is in inserts; is the last value put for every k in inserts and not in
\* deletes; and is as before for every other key. A failed insert_aux
\* changes nothing, and a get_aux whose read the engine fails returns
\* Backend.
C17_InsertAuxSemantics ==
    \A b \in AuxBatches :
        LET r == insert_aux(db, b[1], b[2], "none")
        IN  /\ r.res = "Ok"
            /\ \A k \in AuxKeys :
                get_aux(r.db, k, "none").val
                  = IF k \in DeleteKeys(b[2]) THEN None
                    ELSE IF k \in PutKeys(b[1]) THEN Some(LastPut(b[1], k))
                    ELSE get_aux(db, k, "none").val
            /\ \A k \in AuxKeys :
                /\ get_aux(r.db, k, "none").res = "Ok"
                /\ get_aux(r.db, k, "read") = ReadFailed
            /\ insert_aux(db, b[1], b[2], "write") = Result("Backend", db)

\* One key holds a value and the other none, and calls that put and delete
\* the same key, put one key twice, and delete the stored key are at hand.
C17_Witness ==
    /\ get_aux(db, "k1", "none").val = Some("v2")
    /\ get_aux(db, "k2", "none").val = None
    /\ get_aux(insert_aux(db, <<<<"k2", "v1">>>>, <<"k2">>, "none").db, "k2", "none").val = None
    /\ get_aux(insert_aux(db, <<<<"k2", "v1">>, <<"k2", "v2">>>>, <<>>, "none").db, "k2", "none").val
         = Some("v2")
    /\ get_aux(insert_aux(db, <<>>, <<"k1">>, "none").db, "k1", "none").val = None
    /\ <<<<<<"k2", "v1">>>>, <<"k2">>>> \in AuxBatches

\* ------------------------------------------------------------ C18

\* The hashes met on the way from hash h along the parent fields of the
\* stored headers, n of them at most, and the hash the way ends at.
RECURSIVE BackFrom(_, _, _)
BackFrom(d, h, n) ==
    IF n = 0 \/ h \notin DOMAIN d[HEADER_COLUMN] THEN {}
    ELSE {h} \cup BackFrom(d, d[HEADER_COLUMN][h].parent, n - 1)

RECURSIVE BackEnd(_, _, _)
BackEnd(d, h, n) ==
    IF n = 0 \/ h \notin DOMAIN d[HEADER_COLUMN] THEN h
    ELSE BackEnd(d, d[HEADER_COLUMN][h].parent, n - 1)

\* The non-finalized headers: the non_finalized_blocks last headers of the
\* chain that ends at the best header.
NonFinalized == BackFrom(db, Meta.best_hash, Meta.non_finalized_blocks)

\* C18: the Header Records are the latest finalized header, if any, and the
\* non-finalized headers: their count is non_finalized_blocks plus one if
\* finalized_hash is set; the non-finalized headers are the chain from the
\* best header back to the child of the finalized header (back to genesis
\* when nothing is finalized), each retrievable by its hash; a store without
\* a Metadata Record holds no header.
C18_StoredHeaders ==
    /\ ~HasMeta => StoredHashes = {}
    /\ HasMeta =>
        LET final == IF Meta.finalized_hash # DefaultHash
                     THEN {Meta.finalized_hash} ELSE {}
        IN  /\ Cardinality(StoredHashes)
                 = Meta.non_finalized_blocks + Cardinality(final)
            /\ StoredHashes = NonFinalized \cup final
            /\ final \subseteq StoredHashes
            /\ NonFinalized \cap final = {}
            /\ Cardinality(NonFinalized) = Meta.non_finalized_blocks
            /\ BackEnd(db, Meta.best_hash, Meta.non_finalized_blocks)
                 = IF final # {} THEN Meta.finalized_hash
                   ELSE db[HEADER_COLUMN][Meta.genesis_hash].parent
            /\ \A h \in NonFinalized :
                /\ header(db, ByHash(h), "none").val # None
                /\ HeaderHash(header(db, ByHash(h), "none").val[1]) = h

\* Two finalizations have pruned the genesis header, and the finalized
\* header and one header that is not finalized are stored.
C18_Witness ==
    /\ HasMeta
    /\ Meta.finalized_hash # DefaultHash
    /\ Meta.genesis_hash \notin StoredHashes
    /\ Meta.non_finalized_blocks = 1
    /\ StoredHashes = {Meta.finalized_hash, Meta.best_hash}
    /\ Cardinality(StoredHashes) = 2

\* ------------------------------------------------------------ C19

\* C19: whenever the Metadata Record exists the header at best_hash is
\* stored and its number is best_number, so no call of import_header returns
\* UnknownBlock, and comparing a header's number with the stored best
\* header's is comparing it with best_number.
C19_BestHeaderStored ==
    /\ HasMeta =>
        /\ header(db, ByHash(Meta.best_hash), "none").val # None
        /\ header(db, ByHash(Meta.best_hash), "none").val[1].number = Meta.best_number
        /\ HeaderHash(header(db, ByHash(Meta.best_hash), "none").val[1]) = Meta.best_hash
    /\ \A hdr \in Presented(db), m \in ImportModes :
        ImportWith(db, hdr, m).res # "UnknownBlock"

\* The best header is neither the genesis nor the finalized header, and an
\* import gets past the lookup of the best header to be rejected for its
\* number and for its parent.
C19_Witness ==
    /\ HasMeta
    /\ Meta.finalized_hash # DefaultHash
    /\ Meta.best_hash # Meta.finalized_hash
    /\ Meta.best_hash # Meta.genesis_hash
    /\ header(db, ByHash(Meta.best_hash), "none").val # None
    /\ \E hdr \in Presented(db) :
        /\ hdr.parent = Meta.best_hash
        /\ Import(db, hdr).res = "NotInFinalizedChain"
    /\ \E hdr \in Presented(db) :
        /\ hdr.parent # Meta.best_hash
        /\ hdr.number = Meta.best_number + 1
        /\ Import(db, hdr).res = "NotInFinalizedChain"

\* ------------------------------------------------------------ C20

\* C20: every finalize_header call whose target is stored and passes the
\* contiguity check finds non_finalized_blocks at 1 or more, so the decrement
\* neither aborts nor wraps: no call ends in a panic, and an accepted call
\* leaves the counter one lower.
C20_DecrementNeverUnderflows ==
    \A block \in BlockIds :
        /\ (/\ HasMeta
            /\ header(db, block, "none").val # None
            /\ ~NotContiguous(Meta, header(db, block, "none").val[1],
                              Meta.finalized_hash = DefaultHash))
            => Meta.non_finalized_blocks >= 1
        /\ \A m \in FinalizeModes :
            LET r == finalize_header(db, block, m.overflow_checks, m.fault)
            IN  /\ r.res # "Panic"
                /\ r.res = "Ok"
                    => /\ MetaOf(r.db).non_finalized_blocks # U64_MAX
                       /\ MetaOf(r.db).non_finalized_blocks + 1
                            = Meta.non_finalized_blocks

\* The counter is 1 and a finalization is accepted, in either build, and
\* brings it to 0.
C20_Witness ==
    /\ HasMeta
    /\ Meta.non_finalized_blocks = 1
    /\ Meta.finalized_hash # DefaultHash
    /\ \E block \in BlockIds :
        /\ finalize_header(db, block, FALSE, "none").res = "Ok"
        /\ MetaOf(finalize_header(db, block, FALSE, "none").db).non_finalized_blocks = 0
        /\ Finalize(db, block).res = "Ok"

\* ------------------------------------------------------------ C14

\* The Metadata Record accounts for the Header Records: there are
\* non_finalized_blocks of them on the chain back from best_hash, the header
\* at best_hash first, and beside them only the header at finalized_hash; a
\* store without a record holds no header.
MetadataReflectsHeaders ==
    /\ ~HasMeta => StoredHashes = {}
    /\ HasMeta =>
        LET final == IF Meta.finalized_hash # DefaultHash
                     THEN {Meta.finalized_hash} ELSE {}
        IN  /\ Meta.best_hash \in StoredHashes
            /\ db[HEADER_COLUMN][Meta.best_hash].number = Meta.best_number
            /\ final \subseteq StoredHashes
            /\ StoredHashes = NonFinalized \cup final
            /\ Cardinality(StoredHashes)
                 = Meta.non_finalized_blocks + Cardinality(final)

\* C14: the store does not serialize import_header and finalize_header.
\* While every call has committed a batch built from the record as it still
\* was, the Metadata Record accounts for the Header Records; once two callers
\* have both read the record before either committed, the later commit
\* puts back a record that knows nothing of the earlier one, and a state in
\* which a header is stored or deleted that the record does not account for
\* is reached.
C14_LostUpdateOnlyWhenInterleaved ==
    raced = 0 => MetadataReflectsHeaders

\* Two overlapping calls have both committed, and a stored header is neither
\* the finalized header nor one of the non_finalized_blocks headers back
\* from the best header: the earlier call's update of the record is lost.
C14_Witness ==
    /\ raced = 1
    /\ \A c \in Callers : in_flight[c] = Idle
    /\ HasMeta
    /\ ~MetadataReflectsHeaders
    /\ \E h \in StoredHashes :
        /\ h # Meta.finalized_hash
        /\ h \notin NonFinalized
    /\ Cardinality(StoredHashes) > Meta.non_finalized_blocks + 1

====
